---- MODULE Spec2Model ----
(***************************************************************************)
(* Model of the weave network plugin (plugin/driver): the remote-driver    *)
(* protocol handlers of driver.go and the watched-network set of           *)
(* watcher.go.  Each HTTP handler is one action; its request body, the     *)
(* outcome of every external call it makes (JSON decoder, address          *)
(* allocator, netlink) are inputs chosen with \E.                          *)
(*                                                                         *)
(* Specifications:                                                         *)
(*   Spec         the handlers, one request after the other                *)
(*   SpecWatcher  the Watcher's event loop; FairWatcher adds its fairness  *)
(*   SpecWatched  the event loop with CreateNetwork / DeleteNetwork        *)
(*                requests in between its steps                            *)
(*   SpecRacing   CreateNetwork / DeleteNetwork handled concurrently,      *)
(*                statement by statement                                   *)
(*   SpecCalls    makeMac and isSubdomain applied to drawn arguments       *)
(*                                                                         *)
(* Strings are TLA+ strings: Len, SubSeq and \o act on them as Go's len,   *)
(* s[i:j] and + do.                                                        *)
(***************************************************************************)
EXTENDS Integers, Sequences, FiniteSets, TLC

VARIABLES network, nameserver, networks, links, active, lastNs, last,
          stream, closed, w, wlog, procs, call

(* the driver and what its handlers did *)
dvars == <<network, nameserver, networks, links, active, lastNs, last>>
(* the Watcher's event loop: the events the runtime client has not handed over
   yet, whether it closed the channel, the loop's position, the log of what
   the loop did *)
wvars == <<stream, closed, w, wlog>>
(* requests handled concurrently, statement by statement *)
cvars == <<procs>>
(* one application of a helper function *)
fvars == <<call>>

vars == <<network, nameserver, networks, links, active, lastNs, last,
          stream, closed, w, wlog, procs, call>>

----------------------------------------------------------------------------
(* Bounds: how many ids, addresses and decoder errors the inputs range over *)

MaxNetworks == 1
MaxEndpoints == 4
MaxLeases == 2
MaxDecodeErrors == 2

NetworkPool == <<"n1", "n2", "n3", "n4">>
EndpointPool == <<"abcdeX", "abcd", "abcde", "fghijkl", "", "abcdeYZ", "fghij">>
LeasePool ==
    << [IP |-> <<10, 0, 0, 1>>, Ones |-> 24],
       [IP |-> <<10, 0, 1, 0>>, Ones |-> 16],
       [IP |-> <<192, 168, 255, 17>>, Ones |-> 8],
       [IP |-> <<0, 0, 0, 0, 0, 0, 0, 0, 0, 0, 255, 255, 10, 0, 0, 1>>, Ones |-> 120] >>
DecodeErrorPool ==
    << "unexpected EOF",
       "invalid character 'x' looking for beginning of value",
       "json: cannot unmarshal number into Go value of type string",
       "EOF" >>

Min(a, b) == IF a < b THEN a ELSE b

(* A field missing from a JSON body decodes to "", so "" is always an input *)
NetworkIDs == {""} \cup {NetworkPool[i] : i \in 1..Min(MaxNetworks, Len(NetworkPool))}
EndpointIDs == {EndpointPool[i] : i \in 1..Min(MaxEndpoints, Len(EndpointPool))}
Leases == {LeasePool[i] : i \in 1..Min(MaxLeases, Len(LeasePool))}
DecodeErrors == {DecodeErrorPool[i] : i \in 1..Min(MaxDecodeErrors, Len(DecodeErrorPool))}
NameserverArgs == {"", "10.0.0.1", "fe80::1", "256.0.0.1", "1.2.3", "weave"}

(* err == nil *)
Nil == "<nil>"
(* the abstract ManagedNetwork is absent / no SetNameserver has succeeded *)
None == "<none>"

----------------------------------------------------------------------------
(* Program constants *)

WeaveBridge == "weave"
StatusOK == 200
StatusBadRequest == 400
StatusNotFound == 404
StatusInternalServerError == 500
PrefixLen == 5

----------------------------------------------------------------------------
(* String helpers *)

Char(s, i) == SubSeq(s, i, i)

Digits == <<"0", "1", "2", "3", "4", "5", "6", "7", "8", "9">>
HexDigits == <<"0", "1", "2", "3", "4", "5", "6", "7", "8", "9",
               "a", "b", "c", "d", "e", "f">>

IsDigit(c) == \E i \in 1..10 : Digits[i] = c
IsHexDigit(c) == IsDigit(c) \/ c \in {"a", "b", "c", "d", "e", "f", "A", "B", "C", "D", "E", "F"}
DigitVal(c) == (CHOOSE i \in 1..10 : Digits[i] = c) - 1

(* positions of character c in s *)
Positions(s, c) == {i \in 1..Len(s) : Char(s, i) = c}

RECURSIVE Split(_, _)
Split(s, c) ==
    IF Positions(s, c) = {} THEN <<s>>
    ELSE LET p == CHOOSE i \in Positions(s, c) : \A j \in Positions(s, c) : i <= j
         IN  <<SubSeq(s, 1, p - 1)>> \o Split(SubSeq(s, p + 1, Len(s)), c)

RECURSIVE DecVal(_)
DecVal(s) ==
    IF Len(s) = 0 THEN 0
    ELSE 10 * DecVal(SubSeq(s, 1, Len(s) - 1)) + DigitVal(Char(s, Len(s)))

RECURSIVE Dec(_)
Dec(n) == IF n < 10 THEN Digits[n + 1] ELSE Dec(n \div 10) \o Digits[(n % 10) + 1]

Hex2(b) == HexDigits[(b \div 16) + 1] \o HexDigits[(b % 16) + 1]

RECURSIVE Join(_, _)
Join(parts, sep) ==
    IF Len(parts) = 0 THEN ""
    ELSE IF Len(parts) = 1 THEN parts[1]
    ELSE parts[1] \o sep \o Join(Tail(parts), sep)

----------------------------------------------------------------------------
(* net.ParseIP: is the string an IPv4 dotted-decimal or an IPv6 literal *)

IsDecByte(f) ==
    /\ Len(f) \in 1..3
    /\ \A i \in 1..Len(f) : IsDigit(Char(f, i))
    /\ (Len(f) > 1 => Char(f, 1) # "0")
    /\ DecVal(f) <= 255

IsIPv4(s) ==
    LET f == Split(s, ".")
    IN  Len(f) = 4 /\ \A i \in 1..4 : IsDecByte(f[i])

IsHexGroup(g) == Len(g) \in 1..4 /\ \A i \in 1..Len(g) : IsHexDigit(Char(g, i))

(* number of 16-bit groups a colon-separated list stands for, -1 if malformed;
   an IPv4 tail is allowed in the last place and counts for two *)
GroupCount(part, tailOK) ==
    IF part = "" THEN 0
    ELSE LET g == Split(part, ":")
             n == Len(g)
         IN  IF \A i \in 1..(n - 1) : IsHexGroup(g[i])
             THEN IF IsHexGroup(g[n]) THEN n
                  ELSE IF tailOK /\ IsIPv4(g[n]) THEN n + 1
                  ELSE -1
             ELSE -1

(* positions where "::" starts *)
Ellipses(s) == {i \in 1..(Len(s) - 1) : SubSeq(s, i, i + 1) = "::"}

IsIPv6(s) ==
    IF Ellipses(s) = {}
    THEN GroupCount(s, TRUE) = 8
    ELSE LET p == CHOOSE i \in Ellipses(s) : \A j \in Ellipses(s) : i <= j
             l == GroupCount(SubSeq(s, 1, p - 1), FALSE)
             r == GroupCount(SubSeq(s, p + 2, Len(s)), TRUE)
         IN  /\ Ellipses(SubSeq(s, p + 1, Len(s))) = {}
             /\ l >= 0 /\ r >= 0 /\ l + r <= 7

ParseIP(s) == IsIPv4(s) \/ IsIPv6(s)

----------------------------------------------------------------------------
(* HTTP responses.  status 0 with body kind "none" stands for "no response
   was written" (the handler panicked, or the operation is not an HTTP one) *)

NoResponse == [status |-> 0, body |-> [kind |-> "none"]]

(* http.Error writes the message followed by a newline, as text/plain *)
sendError(msg, code) == [status |-> code, body |-> [kind |-> "text", text |-> msg \o "\n"]]

(* variant: the payload error sent through http.Error's status *)
errorResponsef_Status(msg) ==
    [status |-> StatusInternalServerError, body |-> [kind |-> "Err", Err |-> msg]]

errorResponsef(msg) == [status |-> StatusOK, body |-> [kind |-> "Err", Err |-> msg]]

emptyResponse == [status |-> StatusOK, body |-> [kind |-> "empty"]]

(* encOK: json.Encoder.Encode returned nil *)
objectResponse(obj, encOK) ==
    IF encOK THEN [status |-> StatusOK, body |-> obj]
    ELSE sendError("Could not JSON encode response", StatusInternalServerError)

(* the three handlers that quote the decoder, and the four that do not *)
(* variant: the decoder's message dropped *)
DecodeErrorQuoted_NoDetail(derr) == sendError("Unable to decode JSON payload", StatusBadRequest)

DecodeErrorQuoted(derr) == sendError("Unable to decode JSON payload: " \o derr, StatusBadRequest)
DecodeErrorFixed == sendError("Could not decode JSON encode payload", StatusBadRequest)

----------------------------------------------------------------------------
(* Watcher: the watched-network set (the keys of watcher.networks) *)

WatchNetwork(nets, uuid) == nets \cup {uuid}
(* variant: the id stays in the map *)
UnwatchNetwork_Keep(nets, uuid) == nets

UnwatchNetwork(nets, uuid) == nets \ {uuid}

----------------------------------------------------------------------------
(* State *)

Pre == [network |-> network, nameserver |-> nameserver, networks |-> networks,
        links |-> links, active |-> active, lastNs |-> lastNs]

Req(netID, endID) == [NetworkID |-> netID, EndpointID |-> endID, Arg |-> ""]
ArgReq(arg) == [NetworkID |-> "", EndpointID |-> "", Arg |-> arg]

(* the values of the variables a specification does not use *)
Idle == [pc |-> "recv", k |-> 0, ID |-> "", Status |-> ""]
NoProcs == <<>>
NoCall == [f |-> "none"]

(* last: the request handled by the latest step, its outcome, the calls it
   made to its collaborators in order, and the state it started from; a
   handler touches nothing of the Watcher's loop *)
Handled(op, req, derr, ret, resp, calls) ==
    /\ last' = [op |-> op, req |-> req, derr |-> derr, ret |-> ret, resp |-> resp,
                calls |-> calls, pre |-> Pre]
    /\ UNCHANGED <<wvars, cvars, fvars>>

InitDriver ==
    /\ network = ""
    /\ nameserver = ""
    /\ networks = {}
    /\ links = {}
    /\ active = None
    /\ lastNs = None
    /\ last = [op |-> "New", req |-> Req("", ""), derr |-> Nil, ret |-> "return",
               resp |-> NoResponse, calls |-> <<>>,
               pre |-> [network |-> "", nameserver |-> "", networks |-> {},
                        links |-> {}, active |-> None, lastNs |-> None]]

InitWatcher ==
    /\ stream = <<>>
    /\ closed = FALSE
    /\ w = Idle
    /\ wlog = <<>>

Init ==
    /\ InitDriver
    /\ InitWatcher
    /\ procs = NoProcs
    /\ call = NoCall

----------------------------------------------------------------------------
(* Network handlers *)

createNetwork(derr, netID) ==
    IF derr # Nil THEN
        /\ Handled("CreateNetwork", Req("", ""), derr, "return", DecodeErrorQuoted(derr), <<>>)
        /\ UNCHANGED <<network, nameserver, networks, links, active, lastNs>>
    ELSE IF network # "" THEN
        /\ Handled("CreateNetwork", Req(netID, ""), Nil, "return",
                   errorResponsef("You get just one network, and you already made " \o network),
                   <<>>)
        /\ UNCHANGED <<network, nameserver, networks, links, active, lastNs>>
    ELSE
        /\ network' = netID
        /\ networks' = WatchNetwork(networks, network')
        /\ active' = netID
        /\ Handled("CreateNetwork", Req(netID, ""), Nil, "return", emptyResponse,
                   << <<"WatchNetwork", netID>> >>)
        /\ UNCHANGED <<nameserver, links, lastNs>>

deleteNetwork(derr, netID) ==
    IF derr # Nil THEN
        /\ Handled("DeleteNetwork", Req("", ""), derr, "return", DecodeErrorQuoted(derr), <<>>)
        /\ UNCHANGED <<network, nameserver, networks, links, active, lastNs>>
    ELSE IF netID # network THEN
        /\ Handled("DeleteNetwork", Req(netID, ""), Nil, "return",
                   errorResponsef("Network " \o netID \o " not found"), <<>>)
        /\ UNCHANGED <<network, nameserver, networks, links, active, lastNs>>
    ELSE
        /\ network' = ""
        /\ networks' = UnwatchNetwork(networks, netID)
        /\ active' = IF active = netID THEN None ELSE active
        /\ Handled("DeleteNetwork", Req(netID, ""), Nil, "return", emptyResponse,
                   << <<"UnwatchNetwork", netID>> >>)
        /\ UNCHANGED <<nameserver, links, lastNs>>

----------------------------------------------------------------------------
(* Helpers of the endpoint handlers *)

(* ip.To4(): the four bytes of an IPv4 address, <<>> (nil) for any other *)
V4InV6Prefix == <<0, 0, 0, 0, 0, 0, 0, 0, 0, 0, 255, 255>>
To4(ip) ==
    IF Len(ip) = 4 THEN ip
    ELSE IF Len(ip) = 16 /\ SubSeq(ip, 1, 12) = V4InV6Prefix THEN SubSeq(ip, 13, 16)
    ELSE <<>>

(* net.IP.String() and net.IPNet.String(), for the IPv4 leases of the allocator *)
IPString(ip) == Join([i \in 1..Len(To4(ip)) |-> Dec(To4(ip)[i])], ".")
IPNetString(n) == IPString(n.IP) \o "/" \o Dec(n.Ones)

(* variant: only the last two octets of the address are copied *)
makeMac_LastTwo(ip) ==
    LET v4 == To4(ip)
        hw == [i \in 1..6 |-> IF i = 1 THEN 122
                              ELSE IF i = 2 THEN 66
                              ELSE IF i >= 5 /\ i - 2 <= Len(v4) THEN v4[i - 2]
                              ELSE 0]
    IN  Join([i \in 1..6 |-> Hex2(hw[i])], ":")

(* hw := make(net.HardwareAddr, 6); hw[0], hw[1] = 0x7a, 0x42; copy(hw[2:], ip.To4()) *)
makeMac(ip) ==
    LET v4 == To4(ip)
        hw == [i \in 1..6 |-> IF i = 1 THEN 122
                              ELSE IF i = 2 THEN 66
                              ELSE IF i - 2 <= Len(v4) THEN v4[i - 2]
                              ELSE 0]
    IN  Join([i \in 1..6 |-> Hex2(hw[i])], ":")

vethPair(suffix) == [Name |-> "vethwl" \o suffix, PeerName |-> "vethwg" \o suffix]

(* endID[:5] in joinEndpoint and l.EndpointID[:5] in leaveEndpoint; the slice
   expression panics when the id is shorter *)
SliceOK(endID) == Len(endID) >= PrefixLen
(* variant: Join names the pair after the whole endpoint id *)
JoinSuffix_Whole(endID) == endID

JoinSuffix(endID) == SubSeq(endID, 1, PrefixLen)
(* variant: Leave names the pair after the whole endpoint id *)
LeaveSuffix_Whole(endID) == endID

LeaveSuffix(endID) == SubSeq(endID, 1, PrefixLen)

(* the kernel's links: the veth pairs that exist, each [Name, PeerName, By];
   By is a history field, the endpoint id of the Join that created the pair.
   What LinkSetMaster and LinkSetUp change in a link is never read by the driver *)
NewLink(v, by) == [Name |-> v.Name, PeerName |-> v.PeerName, By |-> by]

(* netlink.LinkAdd and netlink.LinkDel, when they succeed *)
LinkAdd(ls, v, by) == ls \cup {NewLink(v, by)}
LinkDel(ls, v) == ls \ {l \in ls : l.Name = v.Name}

(* the links joinEndpoint leaves behind once LinkAdd has succeeded; failed: a
   later step failed.  No path of joinEndpoint deletes the pair again *)
(* variant: a failed Join removes the pair it created *)
JoinLinks_Compensating(ls, v, by, failed) == IF failed THEN ls ELSE LinkAdd(ls, v, by)

JoinLinks(ls, v, by, failed) == LinkAdd(ls, v, by)
LinkExists(ls, v) ==
    \E l \in ls : l.Name \in {v.Name, v.PeerName} \/ l.PeerName \in {v.Name, v.PeerName}
Result(ok) == IF ok THEN "ok" ELSE "error"

----------------------------------------------------------------------------
(* Endpoint handlers *)

(* allocOK: allocateIP returned no error; lease: the address it returned *)
createEndpoint(derr, netID, endID, allocOK, lease, encOK) ==
    /\ UNCHANGED <<network, nameserver, networks, links, active, lastNs>>
    /\ IF derr # Nil THEN
           Handled("CreateEndpoint", Req("", ""), derr, "return", DecodeErrorQuoted(derr), <<>>)
       ELSE IF netID # network THEN
           Handled("CreateEndpoint", Req(netID, endID), Nil, "return",
                   errorResponsef("No such network " \o netID), <<>>)
       ELSE IF ~allocOK THEN
           Handled("CreateEndpoint", Req(netID, endID), Nil, "return",
                   sendError("Unable to allocate IP", StatusInternalServerError),
                   << <<"allocateIP", endID, "error">> >>)
       ELSE
           Handled("CreateEndpoint", Req(netID, endID), Nil, "return",
                   objectResponse([kind |-> "CreateEndpointResponse",
                                   Interface |-> [Address |-> IPNetString(lease),
                                                  MacAddress |-> makeMac(lease.IP)]],
                                  encOK),
                   << <<"allocateIP", endID, "ok">>,
                      <<"Encode", "CreateEndpointResponse", Result(encOK)>> >>)

deleteEndpoint(derr, endID, releaseOK) ==
    /\ UNCHANGED <<network, nameserver, networks, links, active, lastNs>>
    /\ IF derr # Nil THEN
           Handled("DeleteEndpoint", Req("", ""), derr, "return", DecodeErrorFixed, <<>>)
       ELSE
           Handled("DeleteEndpoint", Req("", endID), Nil, "return", emptyResponse,
                   << <<"releaseIP", endID, Result(releaseOK)>> >>)

infoEndpoint(derr, endID, encOK) ==
    /\ UNCHANGED <<network, nameserver, networks, links, active, lastNs>>
    /\ IF derr # Nil THEN
           Handled("EndpointOperInfo", Req("", ""), derr, "return", DecodeErrorFixed, <<>>)
       ELSE
           Handled("EndpointOperInfo", Req("", endID), Nil, "return",
                   objectResponse([kind |-> "EndpointInfoResponse", Value |-> {}], encOK),
                   << <<"Encode", "EndpointInfoResponse", Result(encOK)>> >>)

(* variant: the route is added whether or not a nameserver is stored *)
StaticRoutes_Always(ns) ==
    << [Destination |-> ns \o "/32", RouteType |-> "CONNECTED", NextHop |-> ""] >>

(* res.StaticRoutes is set only when a nameserver is stored *)
StaticRoutes(ns) ==
    IF ns # "" THEN << [Destination |-> ns \o "/32", RouteType |-> "CONNECTED", NextHop |-> ""] >>
    ELSE <<>>

JoinResponse(local, ns) ==
    [kind |-> "JoinResponse",
     InterfaceName |-> [SrcName |-> local.PeerName, DstPrefix |-> "ethwe"],
     StaticRoutes |-> StaticRoutes(ns)]

(* addOK, masterOK, upOK: the netlink call returned nil; bridge: what
   LinkByName("weave") found, "absent", "other" (not a bridge) or "bridge" *)
joinEndpoint(derr, netID, endID, addOK, bridge, masterOK, upOK, encOK) ==
    /\ UNCHANGED <<network, nameserver, networks, active, lastNs>>
    /\ IF derr # Nil THEN
           /\ Handled("Join", Req("", ""), derr, "return", DecodeErrorFixed, <<>>)
           /\ UNCHANGED links
       ELSE IF ~SliceOK(endID) THEN
           /\ Handled("Join", Req(netID, endID), Nil, "panic", NoResponse, <<>>)
           /\ UNCHANGED links
       ELSE
           LET local == vethPair(JoinSuffix(endID))
               created == addOK /\ ~LinkExists(links, local)
               cAdd == <<"LinkAdd", local.Name, Result(created)>>
               cBridge == <<"LinkByName", WeaveBridge, bridge>>
               cMaster == <<"LinkSetMaster", local.Name, Result(masterOK)>>
               cUp == <<"LinkSetUp", local.Name, Result(upOK)>>
               cEnc == <<"Encode", "JoinResponse", Result(encOK)>>
           IN  IF ~created THEN
                   /\ Handled("Join", Req(netID, endID), Nil, "return",
                              errorResponsef("could not create veth pair"), <<cAdd>>)
                   /\ UNCHANGED links
               ELSE IF bridge = "absent" THEN
                   /\ Handled("Join", Req(netID, endID), Nil, "return",
                              errorResponsef("bridge \"" \o WeaveBridge \o "\" not present"),
                              <<cAdd, cBridge>>)
                   /\ links' = JoinLinks(links, local, endID, TRUE)
               ELSE IF bridge # "bridge" THEN
                   /\ Handled("Join", Req(netID, endID), Nil, "return",
                              errorResponsef("device \"" \o WeaveBridge \o "\" not a bridge"),
                              <<cAdd, cBridge>>)
                   /\ links' = JoinLinks(links, local, endID, TRUE)
               ELSE IF ~masterOK THEN
                   /\ Handled("Join", Req(netID, endID), Nil, "return",
                              errorResponsef("unable to bring veth up"),
                              <<cAdd, cBridge, cMaster>>)
                   /\ links' = JoinLinks(links, local, endID, TRUE)
               ELSE IF ~upOK THEN
                   /\ Handled("Join", Req(netID, endID), Nil, "return",
                              errorResponsef("unable to bring veth up"),
                              <<cAdd, cBridge, cMaster, cUp>>)
                   /\ links' = JoinLinks(links, local, endID, TRUE)
               ELSE
                   /\ Handled("Join", Req(netID, endID), Nil, "return",
                              objectResponse(JoinResponse(local, nameserver), encOK),
                              <<cAdd, cBridge, cMaster, cUp, cEnc>>)
                   /\ links' = JoinLinks(links, local, endID, FALSE)

(* delOK: netlink.LinkDel returned nil; it cannot when no such link exists *)
leaveEndpoint(derr, netID, endID, delOK) ==
    /\ UNCHANGED <<network, nameserver, networks, active, lastNs>>
    /\ IF derr # Nil THEN
           /\ Handled("Leave", Req("", ""), derr, "return", DecodeErrorFixed, <<>>)
           /\ UNCHANGED links
       ELSE IF ~SliceOK(endID) THEN
           /\ Handled("Leave", Req(netID, endID), Nil, "panic", NoResponse, <<>>)
           /\ UNCHANGED links
       ELSE
           LET local == vethPair(LeaveSuffix(endID))
               deleted == delOK /\ LinkExists(links, local)
           IN  /\ links' = IF deleted THEN LinkDel(links, local) ELSE links
               /\ Handled("Leave", Req(netID, endID), Nil, "return", emptyResponse,
                          << <<"LinkDel", local.Name, Result(deleted)>> >>)

----------------------------------------------------------------------------
(* Administrative interface and the handlers without a request body *)

(* variant: the address is stored before it is validated *)
SetNameserver_StoreFirst(ns) ==
    /\ nameserver' = ns
    /\ lastNs' = IF ParseIP(ns) THEN ns ELSE lastNs
    /\ Handled("SetNameserver", ArgReq(ns), Nil, "return",
               IF ParseIP(ns) THEN [status |-> 0, body |-> [kind |-> "nil"]]
               ELSE [status |-> 0,
                     body |-> [kind |-> "error",
                               text |-> "cannot parse IP address \"" \o ns \o "\""]],
               <<>>)
    /\ UNCHANGED <<network, networks, links, active>>

SetNameserver(ns) ==
    IF ~ParseIP(ns) THEN
        /\ Handled("SetNameserver", ArgReq(ns), Nil, "return",
                   [status |-> 0,
                    body |-> [kind |-> "error",
                              text |-> "cannot parse IP address \"" \o ns \o "\""]],
                   <<>>)
        /\ UNCHANGED <<network, nameserver, networks, links, active, lastNs>>
    ELSE
        /\ nameserver' = ns
        /\ lastNs' = ns
        /\ Handled("SetNameserver", ArgReq(ns), Nil, "return",
                   [status |-> 0, body |-> [kind |-> "nil"]], <<>>)
        /\ UNCHANGED <<network, networks, links, active>>

handshake(encOK) ==
    /\ Handled("Plugin.Activate", Req("", ""), Nil, "return",
               IF encOK THEN [status |-> StatusOK,
                              body |-> [kind |-> "handshakeResp",
                                        Implements |-> <<"NetworkDriver">>]]
               ELSE sendError("encode error", StatusInternalServerError),
               << <<"Encode", "handshakeResp", Result(encOK)>> >>)
    /\ UNCHANGED <<network, nameserver, networks, links, active, lastNs>>

getCapabilities(encOK) ==
    /\ Handled("GetCapabilities", Req("", ""), Nil, "return",
               objectResponse([kind |-> "GetCapabilityResponse", Scope |-> "global"], encOK),
               << <<"Encode", "GetCapabilityResponse", Result(encOK)>> >>)
    /\ UNCHANGED <<network, nameserver, networks, links, active, lastNs>>

(* GET /status: "weave plugin <version>\n" *)
status ==
    /\ Handled("status", Req("", ""), Nil, "return",
               [status |-> StatusOK, body |-> [kind |-> "text", text |-> "weave plugin version\n"]],
               <<>>)
    /\ UNCHANGED <<network, nameserver, networks, links, active, lastNs>>

notFound ==
    /\ Handled("notFound", Req("", ""), Nil, "return",
               sendError("404 page not found", StatusNotFound), <<>>)
    /\ UNCHANGED <<network, nameserver, networks, links, active, lastNs>>

----------------------------------------------------------------------------
(* Requests: a body is either malformed (the decoder returns derr and no field
   is read) or decodes to the fields given; a field missing from the body
   decodes to "".  Inputs a handler does not read on the path it takes are
   held at one value, so that each outcome is produced once. *)

CreateNetwork ==
    \/ \E derr \in DecodeErrors : createNetwork(derr, "")
    \/ \E netID \in NetworkIDs : createNetwork(Nil, netID)

DeleteNetwork ==
    \/ \E derr \in DecodeErrors : deleteNetwork(derr, "")
    \/ \E netID \in NetworkIDs : deleteNetwork(Nil, netID)

AllocOutcomes ==
    {o \in [allocOK : BOOLEAN, lease : Leases, encOK : BOOLEAN] :
        ~o.allocOK => (o.encOK /\ o.lease = LeasePool[1])}

CreateEndpoint ==
    \/ \E derr \in DecodeErrors : createEndpoint(derr, "", "", TRUE, LeasePool[1], TRUE)
    \/ \E netID \in NetworkIDs, endID \in EndpointIDs :
          IF netID # network
          THEN createEndpoint(Nil, netID, endID, TRUE, LeasePool[1], TRUE)
          ELSE \E o \in AllocOutcomes :
                  createEndpoint(Nil, netID, endID, o.allocOK, o.lease, o.encOK)

DeleteEndpoint ==
    \/ \E derr \in DecodeErrors : deleteEndpoint(derr, "", TRUE)
    \/ \E endID \in EndpointIDs, releaseOK \in BOOLEAN : deleteEndpoint(Nil, endID, releaseOK)

EndpointOperInfo ==
    \/ \E derr \in DecodeErrors : infoEndpoint(derr, "", TRUE)
    \/ \E endID \in EndpointIDs, encOK \in BOOLEAN : infoEndpoint(Nil, endID, encOK)

JoinOutcomes ==
    {o \in [addOK : BOOLEAN, bridge : {"absent", "other", "bridge"},
            masterOK : BOOLEAN, upOK : BOOLEAN, encOK : BOOLEAN] :
        /\ ~o.addOK => (o.bridge = "bridge" /\ o.masterOK)
        /\ o.bridge # "bridge" => o.masterOK
        /\ ~o.masterOK => o.upOK
        /\ ~o.upOK => o.encOK}

JoinEndpoint ==
    \/ \E derr \in DecodeErrors : joinEndpoint(derr, "", "", TRUE, "bridge", TRUE, TRUE, TRUE)
    \/ \E netID \in NetworkIDs, endID \in EndpointIDs :
          IF ~SliceOK(endID)
          THEN joinEndpoint(Nil, netID, endID, TRUE, "bridge", TRUE, TRUE, TRUE)
          ELSE \E o \in JoinOutcomes :
                  joinEndpoint(Nil, netID, endID, o.addOK, o.bridge, o.masterOK, o.upOK, o.encOK)

LeaveEndpoint ==
    \/ \E derr \in DecodeErrors : leaveEndpoint(derr, "", "", TRUE)
    \/ \E netID \in NetworkIDs, endID \in EndpointIDs :
          IF ~SliceOK(endID)
          THEN leaveEndpoint(Nil, netID, endID, TRUE)
          ELSE \E delOK \in BOOLEAN : leaveEndpoint(Nil, netID, endID, delOK)

ConfigureNameserver == \E ns \in NameserverArgs : SetNameserver(ns)

Handshake == \E encOK \in BOOLEAN : handshake(encOK)

GetCapabilities == \E encOK \in BOOLEAN : getCapabilities(encOK)

Status == status

NotFound == notFound

(* requests handled one after the other, no runtime event arriving *)
Next ==
    \/ CreateNetwork
    \/ DeleteNetwork
    \/ CreateEndpoint
    \/ DeleteEndpoint
    \/ EndpointOperInfo
    \/ JoinEndpoint
    \/ LeaveEndpoint
    \/ ConfigureNameserver
    \/ Handshake
    \/ GetCapabilities
    \/ Status
    \/ NotFound

Spec == Init /\ [][Next]_vars

----------------------------------------------------------------------------
(* The Watcher (watcher.go).  NewWatcher subscribes the unbuffered channel
   w.events to the runtime client and starts one goroutine that ranges over
   it.  stream holds the events the client has still to hand over, in order;
   the goroutine is at w.pc: "recv" (at the range), "inspect" (inside
   InspectContainer), "register" / "deregister" (inside the registrar call)
   or "done" (the range ended).  w.k counts the events received.  wlog is a
   history variable: every receipt, call and return of the loop, in order. *)

MaxEvents == 2
MaxInfos == 3

WeaveDomain == "weave.local"

ContainerIDs == {"c1", "c2"}
Statuses == {"start", "die", "create"}
Events == [ID : ContainerIDs, Status : Statuses]

(* what InspectContainer returns: info.Config.Hostname, info.Config.Domainname,
   info.NetworkSettings.IPAddress *)
InfoPool ==
    << [Hostname |-> "web", Domainname |-> "weave.local", IPAddress |-> "10.0.1.2"],
       [Hostname |-> "db", Domainname |-> "foo.weave.local", IPAddress |-> "10.0.1.3"],
       [Hostname |-> "web", Domainname |-> "notweave.local", IPAddress |-> "10.0.1.4"],
       [Hostname |-> "web", Domainname |-> "weave.local2", IPAddress |-> "10.0.1.5"],
       [Hostname |-> "cache", Domainname |-> "", IPAddress |-> "172.17.0.2"] >>
Infos == {InfoPool[i] : i \in 1..Min(MaxInfos, Len(InfoPool))}
(* info is nil when InspectContainer fails *)
NoInfo == [Hostname |-> "", Domainname |-> "", IPAddress |-> ""]
InspectErrors == {Nil, "no such container"}
RegistrarErrors == {Nil, "weaveDNS unreachable"}

(* strings.HasSuffix *)
HasSuffix(s, suffix) ==
    /\ Len(s) >= Len(suffix)
    /\ SubSeq(s, Len(s) - Len(suffix) + 1, Len(s)) = suffix

(* variant: the suffix is compared without the separating dot *)
isSubdomain_NoDot(x, y) == x = y \/ HasSuffix(x, y)

isSubdomain(x, y) == x = y \/ HasSuffix(x, "." \o y)

(* entries of wlog *)
Recv(k, e) == [k |-> k, what |-> "recv", ID |-> e.ID, Status |-> e.Status]
CallInspect(k, id) == [k |-> k, what |-> "InspectContainer", id |-> id]
RetInspect(k, err, info) == [k |-> k, what |-> "inspected", err |-> err, info |-> info]
CallRegister(k, id, fqdn, ip) ==
    [k |-> k, what |-> "registerWithDNS", id |-> id, fqdn |-> fqdn, ip |-> ip]
CallDeregister(k, id, ip) == [k |-> k, what |-> "deregisterWithDNS", id |-> id, ip |-> ip]
RetRegistrar(k, err) == [k |-> k, what |-> "returned", err |-> err]

(* the runtime client has one more event for the subscription *)
Deliver(e) ==
    /\ ~closed
    /\ w.k + Len(stream) < MaxEvents
    /\ stream' = Append(stream, e)
    /\ UNCHANGED <<closed, w, wlog, dvars, cvars, fvars>>

(* the runtime client closes the channel, after the last event it sent *)
CloseEvents ==
    /\ ~closed
    /\ stream = <<>>
    /\ closed' = TRUE
    /\ UNCHANGED <<stream, w, wlog, dvars, cvars, fvars>>

(* variant: each event is handed to a goroutine of its own, the loop going on
   to the next event at once *)
Receive_WhileBusy ==
    /\ w.pc # "done"
    /\ stream # <<>>
    /\ LET e == Head(stream)
           k == w.k + 1
       IN  /\ stream' = Tail(stream)
           /\ IF e.Status \in {"start", "die"}
              THEN /\ w' = [pc |-> "inspect", k |-> k, ID |-> e.ID, Status |-> e.Status]
                   /\ wlog' = wlog \o <<Recv(k, e), CallInspect(k, e.ID)>>
              ELSE /\ w' = [pc |-> w.pc, k |-> k, ID |-> e.ID, Status |-> e.Status]
                   /\ wlog' = Append(wlog, Recv(k, e))
    /\ UNCHANGED <<closed, dvars, cvars, fvars>>

(* for event := range w.events { switch event.Status {...} }: the next event is
   received; "start" and "die" enter ContainerStart / ContainerDied, which call
   InspectContainer(id); any other status goes round the loop *)
Receive ==
    /\ w.pc = "recv"
    /\ stream # <<>>
    /\ LET e == Head(stream)
           k == w.k + 1
       IN  /\ stream' = Tail(stream)
           /\ IF e.Status \in {"start", "die"}
              THEN /\ w' = [pc |-> "inspect", k |-> k, ID |-> e.ID, Status |-> e.Status]
                   /\ wlog' = wlog \o <<Recv(k, e), CallInspect(k, e.ID)>>
              ELSE /\ w' = [pc |-> "recv", k |-> k, ID |-> e.ID, Status |-> e.Status]
                   /\ wlog' = Append(wlog, Recv(k, e))
    /\ UNCHANGED <<closed, dvars, cvars, fvars>>

(* variant: every started container is registered, whatever its domain *)
ContainerStart_AnyDomain(err, info) ==
    /\ w.pc = "inspect"
    /\ w.Status = "start"
    /\ IF err # Nil
       THEN /\ w' = [w EXCEPT !.pc = "recv"]
            /\ wlog' = Append(wlog, RetInspect(w.k, err, info))
       ELSE /\ w' = [w EXCEPT !.pc = "register"]
            /\ wlog' = wlog \o
                 << RetInspect(w.k, Nil, info),
                    CallRegister(w.k, w.ID, info.Hostname \o "." \o info.Domainname,
                                 info.IPAddress) >>
    /\ UNCHANGED <<stream, closed, dvars, cvars, fvars>>

(* variant: a container is registered only while a network is watched *)
ContainerStart_OnWatchedNetwork(err, info) ==
    /\ w.pc = "inspect"
    /\ w.Status = "start"
    /\ IF err # Nil
       THEN /\ w' = [w EXCEPT !.pc = "recv"]
            /\ wlog' = Append(wlog, RetInspect(w.k, err, info))
       ELSE IF networks # {} /\ isSubdomain(info.Domainname, WeaveDomain)
       THEN /\ w' = [w EXCEPT !.pc = "register"]
            /\ wlog' = wlog \o
                 << RetInspect(w.k, Nil, info),
                    CallRegister(w.k, w.ID, info.Hostname \o "." \o info.Domainname,
                                 info.IPAddress) >>
       ELSE /\ w' = [w EXCEPT !.pc = "recv"]
            /\ wlog' = Append(wlog, RetInspect(w.k, Nil, info))
    /\ UNCHANGED <<stream, closed, dvars, cvars, fvars>>

(* ContainerStart from the return of InspectContainer: (info, err) *)
ContainerStart(err, info) ==
    /\ w.pc = "inspect"
    /\ w.Status = "start"
    /\ IF err # Nil
       THEN /\ w' = [w EXCEPT !.pc = "recv"]
            /\ wlog' = Append(wlog, RetInspect(w.k, err, info))
       ELSE IF isSubdomain(info.Domainname, WeaveDomain)
       THEN /\ w' = [w EXCEPT !.pc = "register"]
            /\ wlog' = wlog \o
                 << RetInspect(w.k, Nil, info),
                    CallRegister(w.k, w.ID, info.Hostname \o "." \o info.Domainname,
                                 info.IPAddress) >>
       ELSE /\ w' = [w EXCEPT !.pc = "recv"]
            /\ wlog' = Append(wlog, RetInspect(w.k, Nil, info))
    /\ UNCHANGED <<stream, closed, dvars, cvars, fvars>>

(* variant: a failed inspection ends the goroutine *)
ContainerDied_StopsOnError(err, info) ==
    /\ w.pc = "inspect"
    /\ w.Status = "die"
    /\ IF err # Nil
       THEN /\ w' = [w EXCEPT !.pc = "done"]
            /\ wlog' = Append(wlog, RetInspect(w.k, err, info))
       ELSE IF isSubdomain(info.Domainname, WeaveDomain)
       THEN /\ w' = [w EXCEPT !.pc = "deregister"]
            /\ wlog' = wlog \o
                 << RetInspect(w.k, Nil, info),
                    CallDeregister(w.k, w.ID, info.IPAddress) >>
       ELSE /\ w' = [w EXCEPT !.pc = "recv"]
            /\ wlog' = Append(wlog, RetInspect(w.k, Nil, info))
    /\ UNCHANGED <<stream, closed, dvars, cvars, fvars>>

(* ContainerDied from the return of InspectContainer: (info, err) *)
ContainerDied(err, info) ==
    /\ w.pc = "inspect"
    /\ w.Status = "die"
    /\ IF err # Nil
       THEN /\ w' = [w EXCEPT !.pc = "recv"]
            /\ wlog' = Append(wlog, RetInspect(w.k, err, info))
       ELSE IF isSubdomain(info.Domainname, WeaveDomain)
       THEN /\ w' = [w EXCEPT !.pc = "deregister"]
            /\ wlog' = wlog \o
                 << RetInspect(w.k, Nil, info),
                    CallDeregister(w.k, w.ID, info.IPAddress) >>
       ELSE /\ w' = [w EXCEPT !.pc = "recv"]
            /\ wlog' = Append(wlog, RetInspect(w.k, Nil, info))
    /\ UNCHANGED <<stream, closed, dvars, cvars, fvars>>

(* registerWithDNS / deregisterWithDNS returns; an error is logged and the
   handler returns to the loop either way *)
RegistrarReturns(err) ==
    /\ w.pc \in {"register", "deregister"}
    /\ w' = [w EXCEPT !.pc = "recv"]
    /\ wlog' = Append(wlog, RetRegistrar(w.k, err))
    /\ UNCHANGED <<stream, closed, dvars, cvars, fvars>>

(* the range ends once the channel is closed *)
LoopExit ==
    /\ w.pc = "recv"
    /\ stream = <<>>
    /\ closed
    /\ w' = [w EXCEPT !.pc = "done"]
    /\ UNCHANGED <<stream, closed, wlog, dvars, cvars, fvars>>

(* the outcomes of InspectContainer: an error with no info, or an info *)
InspectOutcomes ==
    {<<err, info>> \in InspectErrors \X (Infos \cup {NoInfo}) :
        (err # Nil) <=> (info = NoInfo)}

Start == \E o \in InspectOutcomes : ContainerStart(o[1], o[2])
Died == \E o \in InspectOutcomes : ContainerDied(o[1], o[2])
Returns == \E err \in RegistrarErrors : RegistrarReturns(err)

WatcherLoop ==
    \/ Receive
    \/ Start
    \/ Died
    \/ Returns
    \/ LoopExit

NextWatcher ==
    \/ \E e \in Events : Deliver(e)
    \/ CloseEvents
    \/ WatcherLoop

SpecWatcher == Init /\ [][NextWatcher]_vars

(* the Watcher's loop with CreateNetwork and DeleteNetwork requests handled in
   between its steps; the events are those of one container in the order the
   runtime sends them *)
WatchedEvents == {e \in Events : e.ID = "c1" /\ e.Status \in {"start", "die"}}
NetworkRequests ==
    \E netID \in NetworkIDs : createNetwork(Nil, netID) \/ deleteNetwork(Nil, netID)

NextWatched ==
    \/ \E e \in WatchedEvents : Deliver(e)
    \/ CloseEvents
    \/ WatcherLoop
    \/ NetworkRequests

SpecWatched == Init /\ [][NextWatched]_vars

(* the goroutine is scheduled and every call it makes returns: a step of the
   loop that stays possible is taken; the runtime client owes no event *)
FairWatcher == SpecWatcher /\ WF_vars(WatcherLoop)

----------------------------------------------------------------------------
(* The helper functions makeMac (driver.go) and isSubdomain (watcher.go),
   applied once to arguments drawn from bounded sets.  call holds the
   arguments and, once done, the result. *)

MaxOctets == 3
MaxNames == 6

OctetPool == <<10, 0, 1, 255, 128>>
Octets == {OctetPool[i] : i \in 1..Min(MaxOctets, Len(OctetPool))}
IPv4s == {<<a, b, c, d>> : a \in Octets, b \in Octets, c \in Octets, d \in Octets}
(* a net.IP holds an IPv4 address in 4 bytes or in 16 (::ffff:a.b.c.d) *)
Forms(v4) == {v4, V4InV6Prefix \o v4}

NamePool ==
    << "weave.local", "foo.weave.local", "notweave.local", "weave.local2",
       "", "local", "a.b.weave.local", ".weave.local" >>
Names == {NamePool[i] : i \in 1..Min(MaxNames, Len(NamePool))}

MakeMacCalls ==
    {[f |-> "makeMac", v4 |-> v4, ip |-> ip, done |-> FALSE, out |-> ""] :
        <<v4, ip>> \in {p \in IPv4s \X UNION {Forms(v) : v \in IPv4s} : p[2] \in Forms(p[1])}}
IsSubdomainCalls ==
    {[f |-> "isSubdomain", x |-> x, y |-> y, done |-> FALSE, out |-> FALSE] :
        x \in Names, y \in Names}

InitCalls ==
    /\ InitDriver
    /\ InitWatcher
    /\ procs = NoProcs
    /\ \/ call \in MakeMacCalls
       \/ call \in IsSubdomainCalls

ApplyMakeMac ==
    /\ call.f = "makeMac"
    /\ ~call.done
    /\ call' = [call EXCEPT !.done = TRUE, !.out = makeMac(call.ip)]
    /\ UNCHANGED <<dvars, wvars, cvars>>

ApplyIsSubdomain ==
    /\ call.f = "isSubdomain"
    /\ ~call.done
    /\ call' = [call EXCEPT !.done = TRUE, !.out = isSubdomain(call.x, call.y)]
    /\ UNCHANGED <<dvars, wvars, cvars>>

NextCalls ==
    \/ ApplyMakeMac
    \/ ApplyIsSubdomain

SpecCalls == InitCalls /\ [][NextCalls]_vars

----------------------------------------------------------------------------
(* CreateNetwork and DeleteNetwork handled concurrently.  net/http runs each
   request in its own goroutine and the handlers take no lock, so each access
   to driver.network and to the watcher's map is a step of its own.  procs[p]
   is request p: its operation, its NetworkID, where its goroutine is ("check":
   before the test of driver.network, "write": before the assignment, "watch" /
   "unwatch": before the map update, "done", or "killed" when the process has
   died), and its response.

   Two accesses to the same location, one of them a write, by goroutines that
   are both about to make them, form a data race.  A racing read of the string
   driver.network may also return a value made of one write's pointer and
   another's length (Torn) or fault; a racing assignment may leave such a value
   behind; racing map updates may end the process ("concurrent map writes"). *)

MaxRequests == 2

RacingIDs == {"n1", "n2"}
Torn == "<torn>"
Fault == "<fault>"

Request(op, id) == [op |-> op, id |-> id, pc |-> "check", raced |-> FALSE, resp |-> None]
At(p, op, pc) == procs[p].op = op /\ procs[p].pc = pc
Others(p) == DOMAIN procs \ {p}
Writers(p) == {q \in Others(p) : procs[q].pc = "write"}
MapWriters(p) == {q \in Others(p) : procs[q].pc \in {"watch", "unwatch"}}

(* what a read of driver.network by p may return *)
ReadOutcomes(p) == {network} \cup (IF Writers(p) # {} THEN {Torn, Fault} ELSE {})
(* what an assignment of v to driver.network by p may leave in it *)
WriteOutcomes(p, v) ==
    {v} \cup (IF Writers(p) # {} \/ procs[p].raced THEN {Torn} ELSE {})
(* whether a map update by p may end the process *)
MapOutcomes(p) == {"ok"} \cup (IF MapWriters(p) # {} THEN {"fatal"} ELSE {})

Kill == [q \in DOMAIN procs |-> [procs[q] EXCEPT !.pc = "killed"]]
Finish(p, resp) == [procs EXCEPT ![p].pc = "done", ![p].resp = resp]
(* p has made its assignment: the goroutines that were about to make theirs raced with it *)
Stored(p, pc) ==
    [q \in DOMAIN procs |->
        IF q = p THEN [procs[q] EXCEPT !.pc = pc, !.raced = FALSE]
        ELSE IF q \in Writers(p) THEN [procs[q] EXCEPT !.raced = TRUE]
        ELSE procs[q]]

crvars == <<nameserver, links, active, lastNs, last, wvars, fvars>>

(* a request arrives and is decoded *)
Arrive(op, id) ==
    /\ Len(procs) < MaxRequests
    /\ \A q \in DOMAIN procs : procs[q].pc # "killed"
    /\ procs' = Append(procs, Request(op, id))
    /\ UNCHANGED <<network, networks, crvars>>

(* createNetwork: if driver.network != "" { errorResponsef(...); return } *)
CreateCheck(p, v) ==
    /\ At(p, "CreateNetwork", "check")
    /\ procs' = IF v = Fault THEN Kill
                ELSE IF v # "" THEN Finish(p, "Err")
                ELSE [procs EXCEPT ![p].pc = "write"]
    /\ UNCHANGED <<network, networks, crvars>>

(* createNetwork: driver.network = create.NetworkID *)
CreateWrite(p, v) ==
    /\ At(p, "CreateNetwork", "write")
    /\ network' = v
    /\ procs' = Stored(p, "watch")
    /\ UNCHANGED <<networks, crvars>>

(* createNetwork: driver.watcher.WatchNetwork(driver.network); emptyResponse(w) *)
CreateWatch(p, v, m) ==
    /\ At(p, "CreateNetwork", "watch")
    /\ IF v = Fault \/ m = "fatal"
       THEN procs' = Kill /\ UNCHANGED networks
       ELSE /\ networks' = WatchNetwork(networks, v)
            /\ procs' = Finish(p, "ok")
    /\ UNCHANGED <<network, crvars>>

(* deleteNetwork: if delete.NetworkID != driver.network { errorResponsef(...); return } *)
DeleteCheck(p, v) ==
    /\ At(p, "DeleteNetwork", "check")
    /\ procs' = IF v = Fault THEN Kill
                ELSE IF procs[p].id # v THEN Finish(p, "Err")
                ELSE [procs EXCEPT ![p].pc = "write"]
    /\ UNCHANGED <<network, networks, crvars>>

(* deleteNetwork: driver.network = "" *)
DeleteWrite(p, v) ==
    /\ At(p, "DeleteNetwork", "write")
    /\ network' = v
    /\ procs' = Stored(p, "unwatch")
    /\ UNCHANGED <<networks, crvars>>

(* deleteNetwork: driver.watcher.UnwatchNetwork(delete.NetworkID); emptyResponse(w) *)
DeleteUnwatch(p, m) ==
    /\ At(p, "DeleteNetwork", "unwatch")
    /\ IF m = "fatal"
       THEN procs' = Kill /\ UNCHANGED networks
       ELSE /\ networks' = UnwatchNetwork(networks, procs[p].id)
            /\ procs' = Finish(p, "ok")
    /\ UNCHANGED <<network, crvars>>

Arrives == \E op \in {"CreateNetwork", "DeleteNetwork"}, id \in RacingIDs : Arrive(op, id)
CreateChecks == \E p \in DOMAIN procs : \E v \in ReadOutcomes(p) : CreateCheck(p, v)
CreateWrites ==
    \E p \in DOMAIN procs : \E v \in WriteOutcomes(p, procs[p].id) : CreateWrite(p, v)
CreateWatches ==
    \E p \in DOMAIN procs : \E v \in ReadOutcomes(p), m \in MapOutcomes(p) :
        CreateWatch(p, v, m)
DeleteChecks == \E p \in DOMAIN procs : \E v \in ReadOutcomes(p) : DeleteCheck(p, v)
DeleteWrites == \E p \in DOMAIN procs : \E v \in WriteOutcomes(p, "") : DeleteWrite(p, v)
DeleteUnwatches == \E p \in DOMAIN procs : \E m \in MapOutcomes(p) : DeleteUnwatch(p, m)

NextRacing ==
    \/ Arrives
    \/ CreateChecks
    \/ CreateWrites
    \/ CreateWatches
    \/ DeleteChecks
    \/ DeleteWrites
    \/ DeleteUnwatches

SpecRacing == Init /\ [][NextRacing]_vars

----------------------------------------------------------------------------
(* Vocabulary of the properties: what the latest step was and what it did *)

Decoded(op) == last.op = op /\ last.derr = Nil
StateUnchanged ==
    /\ network = last.pre.network
    /\ nameserver = last.pre.nameserver
    /\ networks = last.pre.networks
    /\ links = last.pre.links
Called(name) == \E i \in 1..Len(last.calls) : last.calls[i][1] = name
CallResult(name, res) ==
    \E i \in 1..Len(last.calls) : last.calls[i][1] = name /\ last.calls[i][3] = res
ErrPayload(msg) == [status |-> 200, body |-> [kind |-> "Err", Err |-> msg]]
EmptyPayload == [status |-> 200, body |-> [kind |-> "empty"]]
Contains(s, sub) ==
    \E i \in 1..(Len(s) - Len(sub) + 1) : SubSeq(s, i, i + Len(sub) - 1) = sub
(* no ManagedNetwork with this id existed when the request arrived *)
NotCurrent(id) == last.pre.active = None \/ id # last.pre.active

----------------------------------------------------------------------------
(* C1: once a CreateNetwork(n) has succeeded, every further CreateNetwork
   issued before a successful DeleteNetwork(n) is answered with the "you
   already made n" error payload and leaves the stored network id equal to n,
   for every n including "". *)
C1_SecondCreateRejected ==
    (Decoded("CreateNetwork") /\ last.pre.active # None) =>
        /\ last.resp =
               ErrPayload("You get just one network, and you already made " \o last.pre.active)
        /\ network = last.pre.active

(* C2: DeleteNetwork(id) with id not the current ManagedNetwork's id, or with
   no ManagedNetwork at all, is answered with the "not found" error payload
   and leaves the stored network and the watched set unchanged, for every id
   including "". *)
C2_DeleteUnknownRejected ==
    (Decoded("DeleteNetwork") /\ NotCurrent(last.req.NetworkID)) =>
        /\ last.resp = ErrPayload("Network " \o last.req.NetworkID \o " not found")
        /\ network = last.pre.network
        /\ networks = last.pre.networks

(* C3: CreateEndpoint whose networkId is not the current ManagedNetwork, or
   issued while no network exists, is answered with "No such network" and
   never calls allocateIP. *)
C3_NoAllocationForUnknownNetwork ==
    (Decoded("CreateEndpoint") /\ NotCurrent(last.req.NetworkID)) =>
        /\ last.resp = ErrPayload("No such network " \o last.req.NetworkID)
        /\ ~Called("allocateIP")

(* C4: every well-formed DeleteEndpoint and Leave request, for an endpoint id
   of any length, is answered with HTTP success and the empty payload, also
   when releaseIP or the deletion of the pair fails. *)
C4_CleanupAlwaysAcknowledged ==
    (Decoded("DeleteEndpoint") \/ Decoded("Leave")) => last.resp = EmptyPayload

----------------------------------------------------------------------------
(* The failures of C5, read off the state the request met and the results of
   the calls it made *)

NetworkConflict ==
    \/ Decoded("CreateNetwork") /\ last.pre.network # ""
    \/ Decoded("DeleteNetwork") /\ last.req.NetworkID # last.pre.network
    \/ Decoded("CreateEndpoint") /\ last.req.NetworkID # last.pre.network
AllocatorFailure == last.op = "CreateEndpoint" /\ CallResult("allocateIP", "error")
WiringFailure ==
    /\ last.op = "Join"
    /\ \/ CallResult("LinkAdd", "error")
       \/ CallResult("LinkByName", "absent")
       \/ CallResult("LinkByName", "other")
       \/ CallResult("LinkSetMaster", "error")
       \/ CallResult("LinkSetUp", "error")
DecodeFailure == last.derr # Nil
EncodeFault == CallResult("Encode", "error")
IsErrPayload == last.resp.status = 200 /\ last.resp.body.kind = "Err"
NonSuccessStatus == last.resp.status \notin {0, 200}

(* C5 as stated: every domain-level failure, the allocator's failure in
   CreateEndpoint among them, is answered with HTTP success and an Err
   payload; only decode failures and encoding faults get another status. *)
C5_AllFailuresInPayload ==
    /\ (NetworkConflict \/ AllocatorFailure \/ WiringFailure) => IsErrPayload
    /\ NonSuccessStatus => (DecodeFailure \/ EncodeFault)

(* C5, amended: network conflicts and Join's wiring failures are answered
   with HTTP 200 and an Err payload; the allocator's failure in CreateEndpoint
   is answered with status 500 and the text "Unable to allocate IP"; a status
   other than 200 is sent only for a decode failure (400), the allocator's
   failure (500), an encoding fault (500) and an unmatched path (404). *)
C5_FailureStatuses ==
    /\ (NetworkConflict \/ WiringFailure) => IsErrPayload
    /\ AllocatorFailure =>
           last.resp = [status |-> 500,
                        body |-> [kind |-> "text", text |-> "Unable to allocate IP\n"]]
    /\ DecodeFailure => last.resp.status = 400
    /\ EncodeFault => last.resp.status = 500
    /\ (last.op = "notFound") = (last.resp.status = 404)
    /\ NonSuccessStatus =>
           (DecodeFailure \/ AllocatorFailure \/ EncodeFault \/ last.op = "notFound")

C5_Witness ==
    /\ AllocatorFailure
    /\ last.resp.status = 500
    /\ last.pre.network # ""

----------------------------------------------------------------------------
BodyHandlers ==
    {"CreateNetwork", "DeleteNetwork", "CreateEndpoint", "DeleteEndpoint",
     "EndpointOperInfo", "Join", "Leave"}

(* C6 as stated: a malformed body sent to any of the seven handlers yields
   400 with the decoder's error message in the body, no state change and no
   call to a collaborator. *)
C6_DecodeFailureQuotesDecoder ==
    (last.op \in BodyHandlers /\ last.derr # Nil) =>
        /\ last.resp.status = 400
        /\ last.resp.body.kind = "text"
        /\ Contains(last.resp.body.text, last.derr)
        /\ StateUnchanged
        /\ last.calls = <<>>

(* C6, amended: a malformed body yields 400, no state change and no call to a
   collaborator in all seven handlers; the body carries the decoder's message
   ("Unable to decode JSON payload: " followed by it) in CreateNetwork,
   DeleteNetwork and CreateEndpoint, and the fixed text "Could not decode JSON
   encode payload" in DeleteEndpoint, EndpointOperInfo, Join and Leave. *)
C6_DecodeFailure ==
    (last.op \in BodyHandlers /\ last.derr # Nil) =>
        /\ last.resp.status = 400
        /\ last.resp.body.kind = "text"
        /\ last.resp.body.text =
               IF last.op \in {"CreateNetwork", "DeleteNetwork", "CreateEndpoint"}
               THEN "Unable to decode JSON payload: " \o last.derr \o "\n"
               ELSE "Could not decode JSON encode payload\n"
        /\ StateUnchanged
        /\ last.calls = <<>>

C6_Witness ==
    /\ last.op = "Join"
    /\ last.derr # Nil
    /\ last.pre.network # ""
    /\ last.pre.links # {}

----------------------------------------------------------------------------
(* the pair named after the first 5 characters of an endpoint id *)
PairOf(endID) ==
    [Name |-> "vethwl" \o SubSeq(endID, 1, 5), PeerName |-> "vethwg" \o SubSeq(endID, 1, 5)]
CreatedBy(endID) ==
    [Name |-> PairOf(endID).Name, PeerName |-> PairOf(endID).PeerName, By |-> endID]
LaterStepFailed ==
    \/ CallResult("LinkByName", "absent")
    \/ CallResult("LinkByName", "other")
    \/ CallResult("LinkSetMaster", "error")
    \/ CallResult("LinkSetUp", "error")

(* C7: when Join has created the veth pair and a later step fails (bridge
   missing, not a bridge, attach or bring-up failing), Join answers with an Err
   payload and the pair it created still exists: no failure path deletes it. *)
C7_FailedJoinLeavesPair ==
    (last.op = "Join" /\ CallResult("LinkAdd", "ok") /\ LaterStepFailed) =>
        /\ IsErrPayload
        /\ CreatedBy(last.req.EndpointID) \notin last.pre.links
        /\ CreatedBy(last.req.EndpointID) \in links
        /\ ~Called("LinkDel")

C7_Witness ==
    /\ last.op = "Join"
    /\ CallResult("LinkAdd", "ok")
    /\ CallResult("LinkSetUp", "error")
    /\ CreatedBy(last.req.EndpointID) \in links

----------------------------------------------------------------------------
JoinSucceeded ==
    last.op = "Join" /\ last.resp.status = 200 /\ last.resp.body.kind = "JoinResponse"

(* C8: a successful Join response holds one static route (destination the
   stored nameserver with "/32", connected, empty next hop) exactly when an
   earlier SetNameserver succeeded, and no static route otherwise; SrcName is
   the peer-end name and DstPrefix is "ethwe" in both cases. *)
C8_RouteIffNameserver ==
    JoinSucceeded =>
        /\ last.resp.body.StaticRoutes =
               IF last.pre.lastNs # None
               THEN << [Destination |-> last.pre.lastNs \o "/32",
                        RouteType |-> "CONNECTED", NextHop |-> ""] >>
               ELSE <<>>
        /\ last.resp.body.InterfaceName =
               [SrcName |-> PairOf(last.req.EndpointID).PeerName, DstPrefix |-> "ethwe"]

C8_Witness ==
    /\ JoinSucceeded
    /\ last.pre.lastNs # None
    /\ Len(last.resp.body.StaticRoutes) = 1

----------------------------------------------------------------------------
(* the arguments of NameserverArgs that are IP literals *)
IPLiterals == {"10.0.0.1", "fe80::1"}

(* C9: SetNameserver(address) returns an error and leaves the stored
   nameserver unchanged when address is no IP literal; when it is one it
   returns no error and stores it; so the stored nameserver is empty or the
   argument of the last successful call. *)
C9_NameserverValidated ==
    /\ (last.op = "SetNameserver" /\ last.req.Arg \notin IPLiterals) =>
           /\ last.resp.body.kind = "error"
           /\ nameserver = last.pre.nameserver
    /\ (last.op = "SetNameserver" /\ last.req.Arg \in IPLiterals) =>
           /\ last.resp.body.kind = "nil"
           /\ nameserver = last.req.Arg
    /\ nameserver = IF lastNs = None THEN "" ELSE lastNs

C9_Witness ==
    /\ last.op = "SetNameserver"
    /\ last.resp.body.kind = "error"
    /\ last.pre.nameserver # ""
    /\ nameserver = last.pre.nameserver

----------------------------------------------------------------------------
(* C10: Join and Leave derive the same names from an endpoint id, "vethwl"
   and "vethwg" followed by its first 5 characters and nothing else of it, so
   the pair a successful Join(e) adds is that pair, and a Leave(e) whose
   deletion succeeds while the pair Join(e) created exists removes exactly
   that pair. *)
C10_LeaveDeletesJoinedPair ==
    /\ (last.op = "Join" /\ CallResult("LinkAdd", "ok")) =>
           /\ last.calls[1][2] = PairOf(last.req.EndpointID).Name
           /\ links = last.pre.links \cup {CreatedBy(last.req.EndpointID)}
    /\ (Decoded("Leave") /\ last.ret = "return") =>
           /\ last.calls[1][2] = PairOf(last.req.EndpointID).Name
           /\ links \subseteq last.pre.links
           /\ \A l \in last.pre.links \ links : l.Name = PairOf(last.req.EndpointID).Name
           /\ (CreatedBy(last.req.EndpointID) \in last.pre.links /\ CallResult("LinkDel", "ok"))
                  => links = last.pre.links \ {CreatedBy(last.req.EndpointID)}

C10_Witness ==
    /\ Decoded("Leave")
    /\ CallResult("LinkDel", "ok")
    /\ CreatedBy(last.req.EndpointID) \in last.pre.links
    /\ CreatedBy(last.req.EndpointID) \notin links
    /\ links # {}

----------------------------------------------------------------------------
(* C14: after any sequence of CreateNetwork and DeleteNetwork requests handled
   one after the other, with any ids including "", the watched set holds
   exactly the id of the current ManagedNetwork when one exists and is empty
   when none exists; so it never holds more than one id. *)
C14_WatchedSetIsCurrentNetwork ==
    /\ networks = IF active = None THEN {} ELSE {active}
    /\ Cardinality(networks) <= 1

(* C15: from the state with no network (nothing stored, nothing watched),
   CreateNetwork(m) succeeds for every m and leaves exactly m stored and
   watched; from the state such a CreateNetwork(n) leaves, DeleteNetwork(n)
   succeeds and leaves nothing stored and nothing watched, the rest of the
   driver as it was: the state with no network again, any number of times. *)
C15_CreateDeleteRoundTrip ==
    /\ (Decoded("CreateNetwork") /\ last.pre.network = "" /\ last.pre.networks = {}) =>
           /\ last.resp = EmptyPayload
           /\ network = last.req.NetworkID
           /\ networks = {last.req.NetworkID}
           /\ active = last.req.NetworkID
           /\ nameserver = last.pre.nameserver
           /\ links = last.pre.links
    /\ (/\ Decoded("DeleteNetwork")
        /\ last.pre.network = last.req.NetworkID
        /\ last.pre.networks = {last.req.NetworkID}
        /\ last.pre.active = last.req.NetworkID) =>
           /\ last.resp = EmptyPayload
           /\ network = ""
           /\ networks = {}
           /\ active = None
           /\ nameserver = last.pre.nameserver
           /\ links = last.pre.links

C15_Witness ==
    /\ Decoded("DeleteNetwork")
    /\ last.req.NetworkID = "n1"
    /\ last.pre.network = "n1"
    /\ last.pre.networks = {"n1"}
    /\ last.resp = EmptyPayload
    /\ network = ""
    /\ networks = {}

----------------------------------------------------------------------------
Prefix5(id) == SubSeq(id, 1, 5)
(* the pairs that exist, made by a Join for another endpoint id with the same
   first five characters as this request's *)
SamePrefixPairs ==
    {l \in last.pre.links :
        /\ l.By # last.req.EndpointID
        /\ Prefix5(l.By) = Prefix5(last.req.EndpointID)}

(* C20: whatever the network id of the request and the stored network: a
   Join(e2) while the pair made by Join(e1) exists, e1 # e2 having the same
   first five characters, is answered "could not create veth pair" and e1's
   pair remains; a Leave(e2) whose LinkDel succeeds removes e1's pair; and no
   Leave(e2) removes a pair made for an id with other first five characters. *)
C20_SharedPrefixInterference ==
    /\ (Decoded("Join") /\ last.ret = "return" /\ SamePrefixPairs # {}) =>
           /\ last.resp = ErrPayload("could not create veth pair")
           /\ links = last.pre.links
    /\ (Decoded("Leave") /\ last.ret = "return") =>
           /\ last.resp = EmptyPayload
           /\ CallResult("LinkDel", "ok") => SamePrefixPairs \cap links = {}
           /\ \A l \in last.pre.links :
                 Prefix5(l.By) # Prefix5(last.req.EndpointID) => l \in links

C20_Witness ==
    /\ Decoded("Leave")
    /\ CallResult("LinkDel", "ok")
    /\ last.req.EndpointID = "abcdeX"
    /\ last.req.NetworkID # last.pre.network
    /\ \E l \in SamePrefixPairs : l.By = "abcde" /\ l \notin links
    /\ \E l \in links : l.By = "fghijkl"

----------------------------------------------------------------------------
Quiescent == procs # <<>> /\ \A p \in DOMAIN procs : procs[p].pc = "done"
Acknowledged(op) == {p \in DOMAIN procs : procs[p].op = op /\ procs[p].resp = "ok"}

(* C16: with CreateNetwork and DeleteNetwork requests handled concurrently,
   once all of them have been answered the watched set holds no id but that of
   the stored network, and when no DeleteNetwork was among them at most one
   CreateNetwork has been acknowledged. *)
C16_ConcurrentOneNetwork ==
    Quiescent =>
        /\ networks \subseteq ({network} \ {""})
        /\ Acknowledged("DeleteNetwork") = {} =>
               Cardinality(Acknowledged("CreateNetwork")) <= 1

----------------------------------------------------------------------------
(* Vocabulary of the Watcher claims *)

LogIndex == 1..Len(wlog)
EventNumbers == 1..w.k
EntriesOf(k, whats) == SelectSeq(wlog, LAMBDA x : x.k = k /\ x.what \in whats)
RegistrarCalls(k) == EntriesOf(k, {"registerWithDNS", "deregisterWithDNS"})
AllRegistrarCalls ==
    SelectSeq(wlog, LAMBDA x : x.what \in {"registerWithDNS", "deregisterWithDNS"})
EventOf(k) == EntriesOf(k, {"recv"})[1]
Inspected(k) == EntriesOf(k, {"inspected"}) # <<>>
InspectionOf(k) == EntriesOf(k, {"inspected"})[1]
(* event k needs nothing more from InspectContainer *)
Decided(k) == EventOf(k).Status \notin {"start", "die"} \/ Inspected(k)
(* the loop is through with event k *)
HandledEvent(k) == k < w.k \/ (k = w.k /\ w.pc \in {"recv", "done"})

(* d is the managed domain or ends with a dot followed by it *)
InManagedDomain(d) ==
    \/ d = WeaveDomain
    \/ \E n \in 1..Len(d) :
          SubSeq(d, n, n) = "." /\ SubSeq(d, n + 1, Len(d)) = WeaveDomain

(* the registrar calls the spec asks for event k, given what inspection returned *)
ExpectedCalls(k) ==
    LET e == EventOf(k) IN
    IF e.Status \notin {"start", "die"} THEN <<>>
    ELSE LET r == InspectionOf(k) IN
         IF r.err # Nil \/ ~InManagedDomain(r.info.Domainname) THEN <<>>
         ELSE IF e.Status = "start"
         THEN << CallRegister(k, e.ID, r.info.Hostname \o "." \o r.info.Domainname,
                              r.info.IPAddress) >>
         ELSE << CallDeregister(k, e.ID, r.info.IPAddress) >>

(* C11: for every event the Watcher consumed, once inspection has returned (or
   the status needs none): a "start" of a container in the managed domain made
   exactly one register(id, hostname.domainname, ip) call and no deregister, a
   "die" under the same condition exactly one deregister(id, ip) call and no
   register, and a container outside the domain or any other status (or a
   failed inspection) made neither call; before that, no call was made. *)
C11_RegistrarCallsPerEvent ==
    \A k \in EventNumbers :
        RegistrarCalls(k) = IF Decided(k) THEN ExpectedCalls(k) ELSE <<>>

C11_Witness ==
    /\ w.k = MaxEvents
    /\ HandledEvent(MaxEvents)
    /\ \E i, j \in LogIndex :
          /\ wlog[i].what = "registerWithDNS"
          /\ wlog[i].fqdn = "db.foo.weave.local"
          /\ wlog[j].what = "deregisterWithDNS"
          /\ wlog[j].ip = "10.0.1.2"

CallEntries == {"InspectContainer", "registerWithDNS", "deregisterWithDNS"}
ReturnOf(what) == IF what = "InspectContainer" THEN "inspected" ELSE "returned"
InCall == w.pc \in {"inspect", "register", "deregister"}
(* the call logged at i has returned before the entry at j *)
ReturnedBetween(i, j) ==
    \E m \in LogIndex :
        /\ i < m
        /\ m < j
        /\ wlog[m].k = wlog[i].k
        /\ wlog[m].what = ReturnOf(wlog[i].what)
OneAtATime ==
    /\ \A i, j \in LogIndex : i < j => wlog[i].k <= wlog[j].k
    /\ \A i, j \in LogIndex :
          (i < j /\ wlog[i].what \in CallEntries /\ wlog[j].what \in CallEntries)
              => ReturnedBetween(i, j)
    /\ \A i, j \in 1..Len(AllRegistrarCalls) :
          i < j => AllRegistrarCalls[i].k < AllRegistrarCalls[j].k
    /\ InCall =>
          /\ \A i \in LogIndex : wlog[i].k <= w.k
          /\ ~ENABLED Receive
(* a step that receives an event receives the oldest one waiting *)
ReceivesOldest ==
    w'.k # w.k =>
        /\ w'.k = w.k + 1
        /\ stream # <<>>
        /\ stream' = Tail(stream)
        /\ \E i \in 1..Len(wlog') :
              /\ i > Len(wlog)
              /\ wlog'[i] = Recv(w'.k, Head(stream))

(* C17: the Watcher handles events one at a time in arrival order: each event
   received is the oldest one waiting; no call for a later event is made before
   every call (inspect, register, deregister) for an earlier one has returned;
   the registrar calls are in the order of their events; and while a call is in
   progress no later event is received. *)
C17_StrictlySerial == []OneAtATime /\ [][ReceivesOldest]_vars

C17_Witness ==
    /\ w.pc = "register"
    /\ w.k = 1
    /\ stream # <<>>
    /\ Head(stream).Status = "die"

Delivered(n) == w.k + Len(stream) >= n
FailedInspection(k) == Inspected(k) /\ InspectionOf(k).err # Nil
LoopSurvivesFailures ==
    /\ w.pc = "done" => closed
    /\ \A k \in EventNumbers :
          /\ Len(EntriesOf(k, {"InspectContainer"})) <= 1
          /\ FailedInspection(k) => (RegistrarCalls(k) = <<>> /\ HandledEvent(k))
    /\ (wlog # <<>> /\ wlog[Len(wlog)].what \in {"inspected", "returned"}
            /\ wlog[Len(wlog)].err # Nil) => w.pc \in {"recv", "done"}

(* C18: provided every external call returns, every event delivered on the
   subscription is eventually handled; an event whose inspection fails is
   dropped, with one inspect call and no registrar call, and the loop goes on,
   as it does after a failed register or deregister; the loop ends only when
   the subscription channel has been closed. *)
C18_EveryEventHandled ==
    /\ []LoopSurvivesFailures
    /\ \A n \in 1..MaxEvents : Delivered(n) ~> HandledEvent(n)

C18_Witness ==
    /\ w.k = 2
    /\ w.pc = "recv"
    /\ ~closed
    /\ FailedInspection(1)
    /\ \E i \in LogIndex :
          wlog[i].k = 2 /\ wlog[i].what = "returned" /\ wlog[i].err # Nil

RECURSIVE ExpectedUpTo(_)
(* the registrar calls events 1..k ask for, from the events and the results of
   their inspection alone *)
ExpectedUpTo(k) ==
    IF k = 0 THEN <<>>
    ELSE ExpectedUpTo(k - 1) \o (IF Decided(k) THEN ExpectedCalls(k) ELSE <<>>)
NetworkStep == network' # network \/ networks' # networks \/ last' # last
CallsFromEventsAlone == AllRegistrarCalls = ExpectedUpTo(w.k)
NoCallFromNetworkStep == NetworkStep => (wlog' = wlog /\ w' = w /\ stream' = stream)

(* C19: with CreateNetwork and DeleteNetwork requests interleaved in any way
   with the Watcher's steps, the sequence of register / deregister calls is the
   one determined by the events and their inspection results alone, whatever
   the stored network and the watched set, no network at all included; and a
   request step (hence WatchNetwork, UnwatchNetwork) adds no call. *)
C19_CallsIndependentOfNetworks == []CallsFromEventsAlone /\ [][NoCallFromNetworkStep]_vars

C19_Witness ==
    /\ AllRegistrarCalls # <<>>
    /\ AllRegistrarCalls[1].what = "registerWithDNS"
    /\ last.op = "New"
    /\ networks = {}
    /\ stream # <<>>

----------------------------------------------------------------------------
(* Vocabulary of the helper-function claims *)

HexVal(c) == (CHOOSE i \in 1..16 : HexDigits[i] = c) - 1
HexByte(s) == 16 * HexVal(Char(s, 1)) + HexVal(Char(s, 2))
MacCall == call.f = "makeMac" /\ call.done
SubdomainCall == call.f = "isSubdomain" /\ call.done

(* C12: the hardware address made for a leased IPv4 address reads, as six
   two-digit hex bytes separated by colons, 7a, 42 and the four octets of the
   address (10.0.0.1 gives 7a:42:0a:00:00:01); every representation of the same
   address gives the same result and every other IPv4 address a different one. *)
C12_MacFromIPv4 ==
    MacCall =>
        LET parts == Split(call.out, ":") IN
        /\ Len(parts) = 6
        /\ \A i \in 1..6 : Len(parts[i]) = 2
        /\ parts[1] = "7a"
        /\ parts[2] = "42"
        /\ \A i \in 1..4 : HexByte(parts[i + 2]) = call.v4[i]
        /\ (call.v4 = <<10, 0, 0, 1>> => call.out = "7a:42:0a:00:00:01")
        /\ \A other \in IPv4s : \A ip \in Forms(other) :
              (makeMac(ip) = call.out) <=> (other = call.v4)

C12_Witness ==
    /\ MacCall
    /\ call.v4 = <<10, 0, 0, 1>>
    /\ Len(call.ip) = 16
    /\ call.out = "7a:42:0a:00:00:01"

(* C13: isSubdomain(x, y) is true exactly when x equals y or x ends with a dot
   followed by y; so it is true for (weave.local, weave.local) and
   (foo.weave.local, weave.local) and false for (notweave.local, weave.local)
   and (weave.local2, weave.local). *)
C13_IsSubdomainExact ==
    SubdomainCall =>
        /\ call.out <=>
              \/ call.x = call.y
              \/ \E n \in 1..Len(call.x) :
                    /\ SubSeq(call.x, n, n) = "."
                    /\ SubSeq(call.x, n + 1, Len(call.x)) = call.y
        /\ call.y = "weave.local" =>
              /\ call.x \in {"weave.local", "foo.weave.local"} => call.out
              /\ call.x \in {"notweave.local", "weave.local2"} => ~call.out

C13_Witness ==
    /\ SubdomainCall
    /\ call.x = "notweave.local"
    /\ call.y = "weave.local"
    /\ ~call.out

====
